---- MODULE Spec2Model ----
(***************************************************************************)
(* Model of src/main.py: a FastAPI application that fronts an Interactive  *)
(* Brokers session.  The program state is the module-level flag            *)
(* `connected`, the module-level dictionary `server_state` and the         *)
(* configured API key.  Every endpoint handler is a coroutine without a    *)
(* suspension point (the only awaits are on connect_to_ib and              *)
(* disconnect_from_ib, which themselves never suspend), so on the single   *)
(* asyncio event loop each handler runs to completion before the next one  *)
(* starts: one action per handler.                                         *)
(***************************************************************************)
EXTENDS Integers, Sequences, FiniteSets, TLC

VARIABLES
    phase,          \* lifecycle of the app: "created" -> "serving" -> "stopped"
    API_KEY,        \* os.environ.get("API_KEY", ""), read once at import
    missing_status, \* status the installed APIKeyHeader gives a missing key
    connected,      \* module-level flag `connected`
    server_state,   \* module-level dict `server_state` (mutable entries)
    now,            \* the wall clock read by datetime.utcnow()
    request,        \* the request handled by the last step
    response        \* the response produced by the last step

vars == <<phase, API_KEY, missing_status, connected, server_state, now, request, response>>

----------------------------------------------------------------------------
(* Bounds and input sets *)

\* The clock takes the values 0..MaxTime.
MaxTime == 2

\* Markers for Python's None and for a header that is not sent.  An optional
\* value (a timestamp that may be None, a local name that may have no value)
\* is a sequence of length at most one.
None == "None"
Absent == "<absent>"

\* Values of the API_KEY environment variable: unset (the default "") or set.
ConfiguredKeys == {"", "secret"}

\* Values of the X-API-Key request header.
Headers == {Absent, "", "secret", "wrong"}

\* A clock reading at or after the previous one.
Times(t) == {u \in t..(t + 1) : u <= MaxTime}

\* Request bodies of POST /orders: a dict, modelled as a function whose domain
\* is the set of keys the caller sent.
OrderFull ==
    [symbol : {"AAPL"},
     action : {"BUY"},
     quantity : {0, 100},
     orderType : {"MKT", "LMT", "STP"},
     limitPrice : {150},
     stopPrice : {140}]

OrderKeySets ==
    {D \cup {"action", "quantity", "orderType"} :
        D \in SUBSET {"symbol", "limitPrice", "stopPrice"}}

OrderInputs == {[k \in D |-> f[k]] : f \in OrderFull, D \in OrderKeySets}

\* Path parameters of DELETE /orders/{order_id} and GET /marketdata/{symbol}.
OrderIds == {1, 2, 3}
Symbols == {"AAPL", "MSFT"}

\* The statements of the try blocks of connect_to_ib and disconnect_from_ib
\* are dictionary stores, an assignment and datetime.utcnow().isoformat();
\* the transport calls are commented out, so the body never raises.
TryBodyRaises == {FALSE}

\* Status with which fastapi.security.APIKeyHeader (auto_error) rejects a
\* request that carries no key: 403 up to FastAPI 0.121, 401 afterwards.  The
\* repository pins no version, so either can be the installed one.
MissingKeyStatus == {401, 403}

NoArg == "-"
NoRequest == [op |-> "none", key |-> Absent, arg |-> NoArg]
NoResponse == [code |-> 0, body |-> [detail |-> "none"]]

----------------------------------------------------------------------------
(* Authentication *)

\* api_key_header = APIKeyHeader(name="X-API-Key"): the header value, or a
\* rejection when the header is missing or empty.
api_key_header(header, missing) ==
    IF header = Absent \/ header = ""
    THEN [ok |-> FALSE, code |-> missing, detail |-> "Not authenticated"]
    ELSE [ok |-> TRUE, api_key |-> header]

\* verify_api_key with the comparison dropped.
verify_api_key_accept_all(api_key, key) ==
    [ok |-> TRUE, api_key |-> api_key]

\* verify_api_key: exact comparison with the configured key.
verify_api_key(api_key, key) ==
    IF api_key # key
    THEN [ok |-> FALSE, code |-> 401, detail |-> "Invalid API Key"]
    ELSE [ok |-> TRUE, api_key |-> api_key]

\* dependencies=[Depends(verify_api_key)]: the header scheme is resolved
\* first, then verify_api_key; the handler runs only when both pass.
Authorize(header, key, missing) ==
    LET h == api_key_header(header, missing)
    IN  IF ~h.ok THEN h ELSE verify_api_key(h.api_key, key)

Rejection(a) == [code |-> a.code, body |-> [detail |-> a.detail]]

----------------------------------------------------------------------------
(* Connection management *)

\* connect_to_ib without the early return for an existing connection.
connect_to_ib_always(c, ss, t, raises) ==
    IF raises
    THEN [connected |-> FALSE,
          server_state |-> [ss EXCEPT !.status = "error",
                                      !.error_message = "exception",
                                      !.connected = FALSE],
          ret |-> FALSE]
    ELSE [connected |-> TRUE,
          server_state |-> [ss EXCEPT !.status = "connected",
                                      !.connected = TRUE,
                                      !.last_connected = <<t>>,
                                      !.ib_gateway_version = "Demo Version"],
          ret |-> TRUE]

\* connect_to_ib: the new globals and the return value.
connect_to_ib(c, ss, t, raises) ==
    IF c
    THEN [connected |-> c, server_state |-> ss, ret |-> TRUE]
    ELSE LET s1 == [ss EXCEPT !.status = "connecting"]
         IN  IF raises
             THEN [connected |-> FALSE,
                   server_state |-> [s1 EXCEPT !.status = "error",
                                               !.error_message = "exception",
                                               !.connected = FALSE],
                   ret |-> FALSE]
             ELSE [connected |-> TRUE,
                   server_state |-> [s1 EXCEPT !.connected = TRUE,
                                               !.last_connected = <<t>>,
                                               !.status = "connected",
                                               !.ib_gateway_version = "Demo Version"],
                   ret |-> TRUE]

\* disconnect_from_ib without the early return for a missing connection.
disconnect_from_ib_always(c, ss, raises) ==
    [connected |-> FALSE,
     server_state |-> [ss EXCEPT !.connected = FALSE,
                                 !.status = "disconnected"],
     ret |-> TRUE]

\* disconnect_from_ib that clears the flag but not server_state["connected"].
disconnect_from_ib_flag_only(c, ss, raises) ==
    IF ~c
    THEN [connected |-> c, server_state |-> ss, ret |-> TRUE]
    ELSE [connected |-> FALSE,
          server_state |-> [ss EXCEPT !.status = "disconnected"],
          ret |-> TRUE]

\* disconnect_from_ib: the new globals and the return value.
disconnect_from_ib(c, ss, raises) ==
    IF ~c
    THEN [connected |-> c, server_state |-> ss, ret |-> TRUE]
    ELSE IF raises
         THEN [connected |-> c,
               server_state |-> [ss EXCEPT !.error_message = "exception"],
               ret |-> FALSE]
         ELSE [connected |-> FALSE,
               server_state |-> [ss EXCEPT !.connected = FALSE,
                                           !.status = "disconnected"],
               ret |-> TRUE]

----------------------------------------------------------------------------
(* Endpoint handlers: the globals after the call and the HTTP response *)

Result(c, ss, code, body) ==
    [connected |-> c, server_state |-> ss,
     response |-> [code |-> code, body |-> body]]

\* The value of the name `connected` at the entry of get_accounts,
\* get_positions, get_orders, place_order, cancel_order and get_market_data.
\* Each of them assigns `connected` without declaring it global, so the name
\* is local to the handler and has no value when the handler starts.
handler_local_connected == <<>>

\* The guard that opens each of those six handlers:
\*     if not connected: connected = await connect_to_ib()
\*     if not connected: raise HTTPException(status_code=503, ...)
\* Reading a local name that has no value raises UnboundLocalError, which
\* the server turns into a 500 response.
require_connection(local, c, ss, t, raises) ==
    IF local = <<>>
    THEN [http |-> 500, detail |-> "Internal Server Error",
          connected |-> c, server_state |-> ss]
    ELSE LET r == IF ~local[1]
                  THEN connect_to_ib(c, ss, t, raises)
                  ELSE [connected |-> c, server_state |-> ss, ret |-> local[1]]
         IN  IF ~r.ret
             THEN [http |-> 503, detail |-> "Not connected to IB",
                   connected |-> r.connected, server_state |-> r.server_state]
             ELSE [http |-> 200, detail |-> "",
                   connected |-> r.connected, server_state |-> r.server_state]

Refused(g) ==
    Result(g.connected, g.server_state, g.http, [detail |-> g.detail])

\* GET /health
health_check(c, ss, t) ==
    Result(c, ss, 200,
           [status |-> "healthy", timestamp |-> t, ib_connection |-> c])

\* GET /status
get_status(c, ss) == Result(c, ss, 200, ss)

\* POST /connect
connect(c, ss, t, raises) ==
    LET r == connect_to_ib(c, ss, t, raises)
    IN  Result(r.connected, r.server_state, 200,
               [success |-> r.ret, status |-> r.server_state.status,
                timestamp |-> t])

\* POST /disconnect
disconnect(c, ss, t, raises) ==
    LET r == disconnect_from_ib(c, ss, raises)
    IN  Result(r.connected, r.server_state, 200,
               [success |-> r.ret, status |-> r.server_state.status,
                timestamp |-> t])

\* GET /accounts
get_accounts(c, ss, t, raises) ==
    LET g == require_connection(handler_local_connected, c, ss, t, raises)
    IN  IF g.http # 200 THEN Refused(g)
        ELSE Result(g.connected, g.server_state, 200,
                    <<[type |-> "securities", currency |-> "USD"]>>)

\* GET /positions
get_positions(c, ss, t, raises) ==
    LET g == require_connection(handler_local_connected, c, ss, t, raises)
    IN  IF g.http # 200 THEN Refused(g)
        ELSE Result(g.connected, g.server_state, 200,
                    <<[symbol |-> "AAPL", position |-> 100],
                      [symbol |-> "MSFT", position |-> 50]>>)

\* The order list that get_orders returns.
mock_orders ==
    <<[orderId |-> 1, action |-> "BUY", totalQuantity |-> 100,
       orderType |-> "LMT", status |-> "Filled", filled |-> 100,
       remaining |-> 0, symbol |-> "AAPL"]>>

\* GET /orders
get_orders(c, ss, t, raises) ==
    LET g == require_connection(handler_local_connected, c, ss, t, raises)
    IN  IF g.http # 200 THEN Refused(g)
        ELSE Result(g.connected, g.server_state, 200, mock_orders)

required_fields == {"symbol", "action", "quantity", "orderType"}

\* dict.get(key, default)
Get(d, k, default) == IF k \in DOMAIN d THEN d[k] ELSE default

\* The order confirmation that place_order builds.
new_order(order_data) ==
    [orderId |-> 2,
     clientId |-> 1,
     action |-> order_data["action"],
     totalQuantity |-> order_data["quantity"],
     orderType |-> order_data["orderType"],
     lmtPrice |-> Get(order_data, "limitPrice", 0),
     auxPrice |-> Get(order_data, "stopPrice", 0),
     status |-> "PreSubmitted",
     filled |-> 0,
     remaining |-> order_data["quantity"],
     symbol |-> order_data["symbol"]]

\* POST /orders
place_order(order_data, c, ss, t, raises) ==
    LET g == require_connection(handler_local_connected, c, ss, t, raises)
    IN  IF g.http # 200 THEN Refused(g)
        ELSE IF \E field \in required_fields : field \notin DOMAIN order_data
        THEN Result(g.connected, g.server_state, 400,
                    [detail |-> "Missing required field"])
        ELSE Result(g.connected, g.server_state, 200, new_order(order_data))

\* DELETE /orders/{order_id}
cancel_order(order_id, c, ss, t, raises) ==
    LET g == require_connection(handler_local_connected, c, ss, t, raises)
    IN  IF g.http # 200 THEN Refused(g)
        ELSE Result(g.connected, g.server_state, 200,
                    [orderId |-> order_id, status |-> "Cancelled",
                     timestamp |-> t])

\* GET /marketdata/{symbol}
get_market_data(symbol, c, ss, t, raises) ==
    LET g == require_connection(handler_local_connected, c, ss, t, raises)
    IN  IF g.http # 200 THEN Refused(g)
        ELSE Result(g.connected, g.server_state, 200,
                    [symbol |-> symbol, last |-> 155, timestamp |-> t])

----------------------------------------------------------------------------
(* The state machine *)

Init ==
    /\ phase = "created"
    /\ API_KEY \in ConfiguredKeys
    /\ missing_status \in MissingKeyStatus
    /\ connected = FALSE
    /\ server_state = [status |-> "initializing",
                       connected |-> FALSE,
                       last_connected |-> <<>>,
                       ib_gateway_version |-> None,
                       error_message |-> None]
    /\ now = 0
    /\ request = NoRequest
    /\ response = NoResponse

\* One request served: the request, the globals after it, the response and
\* the clock.
Serve(req, res, t) ==
    /\ request' = req
    /\ connected' = res.connected
    /\ server_state' = res.server_state
    /\ response' = res.response
    /\ now' = t
    /\ UNCHANGED <<phase, API_KEY, missing_status>>

\* A request to an endpoint declared with dependencies=[Depends(verify_api_key)].
Protected(op, key, arg, t, res) ==
    LET a == Authorize(key, API_KEY, missing_status)
    IN  Serve([op |-> op, key |-> key, arg |-> arg],
              IF a.ok THEN res
              ELSE [connected |-> connected, server_state |-> server_state,
                    response |-> Rejection(a)],
              t)

\* @app.on_event("startup"): logs, then builds a BackgroundTasks object that
\* is local to the handler, adds connect_to_ib to it and returns.  Nothing
\* runs the tasks of that object, and no global is touched.
startup_event ==
    /\ phase = "created"
    /\ phase' = "serving"
    /\ request' = NoRequest
    /\ response' = NoResponse
    /\ UNCHANGED <<API_KEY, missing_status, connected, server_state, now>>

\* @app.on_event("shutdown")
shutdown_event ==
    /\ phase = "serving"
    /\ \E raises \in TryBodyRaises :
         LET r == disconnect_from_ib(connected, server_state, raises)
         IN  /\ connected' = r.connected
             /\ server_state' = r.server_state
    /\ phase' = "stopped"
    /\ request' = NoRequest
    /\ response' = NoResponse
    /\ UNCHANGED <<API_KEY, missing_status, now>>

ServeHealth ==
    /\ phase = "serving"
    /\ \E key \in Headers, t \in Times(now) :
         Serve([op |-> "health_check", key |-> key, arg |-> NoArg],
               health_check(connected, server_state, t), t)

ServeStatus ==
    /\ phase = "serving"
    /\ \E key \in Headers, t \in Times(now) :
         Protected("get_status", key, NoArg, t,
                   get_status(connected, server_state))

ServeConnect ==
    /\ phase = "serving"
    /\ \E key \in Headers, t \in Times(now),
          raises \in TryBodyRaises :
         Protected("connect", key, NoArg, t,
                   connect(connected, server_state, t, raises))

ServeDisconnect ==
    /\ phase = "serving"
    /\ \E key \in Headers, t \in Times(now),
          raises \in TryBodyRaises :
         Protected("disconnect", key, NoArg, t,
                   disconnect(connected, server_state, t, raises))

ServeAccounts ==
    /\ phase = "serving"
    /\ \E key \in Headers, t \in Times(now),
          raises \in TryBodyRaises :
         Protected("get_accounts", key, NoArg, t,
                   get_accounts(connected, server_state, t, raises))

ServePositions ==
    /\ phase = "serving"
    /\ \E key \in Headers, t \in Times(now),
          raises \in TryBodyRaises :
         Protected("get_positions", key, NoArg, t,
                   get_positions(connected, server_state, t, raises))

ServeOrders ==
    /\ phase = "serving"
    /\ \E key \in Headers, t \in Times(now),
          raises \in TryBodyRaises :
         Protected("get_orders", key, NoArg, t,
                   get_orders(connected, server_state, t, raises))

ServePlaceOrder ==
    /\ phase = "serving"
    /\ \E key \in Headers, t \in Times(now),
          raises \in TryBodyRaises, order_data \in OrderInputs :
         Protected("place_order", key, order_data, t,
                   place_order(order_data, connected, server_state, t, raises))

ServeCancelOrder ==
    /\ phase = "serving"
    /\ \E key \in Headers, t \in Times(now),
          raises \in TryBodyRaises, order_id \in OrderIds :
         Protected("cancel_order", key, order_id, t,
                   cancel_order(order_id, connected, server_state, t, raises))

ServeMarketData ==
    /\ phase = "serving"
    /\ \E key \in Headers, t \in Times(now),
          raises \in TryBodyRaises, symbol \in Symbols :
         Protected("get_market_data", key, symbol, t,
                   get_market_data(symbol, connected, server_state, t, raises))

Next ==
    \/ startup_event
    \/ shutdown_event
    \/ ServeHealth
    \/ ServeStatus
    \/ ServeConnect
    \/ ServeDisconnect
    \/ ServeAccounts
    \/ ServePositions
    \/ ServeOrders
    \/ ServePlaceOrder
    \/ ServeCancelOrder
    \/ ServeMarketData

Spec == Init /\ [][Next]_vars

\* The startup handler is run by the server; requests come from clients and
\* are under no obligation to arrive.
LiveSpec == Spec /\ WF_vars(startup_event)

TypeOK ==
    /\ phase \in {"created", "serving", "stopped"}
    /\ API_KEY \in ConfiguredKeys
    /\ connected \in BOOLEAN
    /\ now \in 0..MaxTime
    /\ server_state.status \in
         {"initializing", "connecting", "connected", "disconnected", "error"}

----------------------------------------------------------------------------
(* Vocabulary of the properties *)

\* The request carries the configured API key.
ValidKey(key) == key # Absent /\ key # "" /\ key = API_KEY

ProtectedOps ==
    {"get_status", "connect", "disconnect", "get_accounts", "get_positions",
     "get_orders", "place_order", "cancel_order", "get_market_data"}

MutatingOps == {"place_order", "cancel_order", "get_market_data"}

\* A place request that passes the validation of the order ledger: all
\* required fields, a positive quantity, and the price its order type needs.
PriceMissing(order_data) ==
    \/ order_data["orderType"] = "LMT" /\ "limitPrice" \notin DOMAIN order_data
    \/ order_data["orderType"] = "STP" /\ "stopPrice" \notin DOMAIN order_data

ValidOrder(order_data) ==
    /\ required_fields \subseteq DOMAIN order_data
    /\ order_data["quantity"] > 0
    /\ ~PriceMissing(order_data)

\* The ids of the listed orders, and of those listed as Filled.
ListedIds == {mock_orders[i].orderId : i \in 1..Len(mock_orders)}
FilledIds ==
    {mock_orders[i].orderId :
        i \in {j \in 1..Len(mock_orders) : mock_orders[j].status = "Filled"}}

----------------------------------------------------------------------------
(* Properties *)

\* C1: place, cancel and market-data subscribe called with a valid API key
\* while the session is not connected answer 503 and leave the session as
\* it was (no order is created).
C1_FailFastWhenNotConnected ==
    [][(/\ ~connected
        /\ request'.op \in MutatingOps
        /\ ValidKey(request'.key))
       => (/\ response'.code = 503
           /\ connected' = connected)]_vars

\* C2: a connect request that arrives while the session is connecting or
\* connected succeeds with the existing session: the flag, the recorded
\* connection time, the version and the status stay as they were.
C2_ConnectReturnsExistingSession ==
    [][(/\ connected \/ server_state.status \in {"connecting", "connected"}
        /\ request'.op = "connect"
        /\ ValidKey(request'.key))
       => (/\ response'.code = 200
           /\ response'.body.success
           /\ response'.body.status = "connected"
           /\ connected'
           /\ server_state' = server_state)]_vars

\* C2 witness: a connect request succeeded at a time later than the recorded
\* connection time, so it was served by the existing session.
C2_Witness ==
    /\ request.op = "connect"
    /\ response.code = 200
    /\ connected
    /\ server_state.last_connected # <<>>
    /\ server_state.last_connected[1] < now

\* C3 as stated: every endpoint other than /health answers 401 to a request
\* whose key is absent or differs from the configured key, and leaves the
\* session state alone; /health answers without a key.
C3_Original ==
    [][/\ (/\ request'.op \in ProtectedOps
           /\ (request'.key = Absent \/ request'.key # API_KEY))
          => (/\ response'.code = 401
              /\ connected' = connected
              /\ server_state' = server_state)
       /\ (request'.op = "health_check" => response'.code = 200)]_vars

\* C3 amended: a key that is sent and differs from the configured key is
\* answered 401; a key that is absent or empty is answered 401 or 403 by the
\* header scheme; in both cases the session state is left alone; /health
\* answers without a key.
C3_Unauthorized ==
    [][/\ (/\ request'.op \in ProtectedOps
           /\ (request'.key = Absent \/ request'.key # API_KEY))
          => (/\ request'.key \notin {Absent, ""} => response'.code = 401
              /\ request'.key \in {Absent, ""} => response'.code \in {401, 403}
              /\ connected' = connected
              /\ server_state' = server_state)
       /\ (request'.op = "health_check" => response'.code = 200)]_vars

\* C3 witness: a connect request without a key was refused with 403 and the
\* session stayed unconnected.
C3_Witness ==
    /\ request.op = "connect"
    /\ request.key = Absent
    /\ response.code = 403
    /\ ~connected
    /\ server_state.status = "initializing"

\* C4: a valid place request served while connected returns an order with
\* filled = 0, remaining = the requested quantity and status PendingSubmit.
C4_PlacedOrderPending ==
    [][(/\ connected
        /\ request'.op = "place_order"
        /\ ValidKey(request'.key)
        /\ ValidOrder(request'.arg))
       => (/\ response'.code = 200
           /\ response'.body.filled = 0
           /\ response'.body.remaining = request'.arg["quantity"]
           /\ response'.body.status = "PendingSubmit")]_vars

\* C5: a place request served while connected is answered 400 when its
\* quantity is not positive or the price of its order type is absent.
C5_InvalidOrderRejected ==
    [][(/\ connected
        /\ request'.op = "place_order"
        /\ ValidKey(request'.key)
        /\ required_fields \subseteq DOMAIN request'.arg
        /\ (request'.arg["quantity"] <= 0 \/ PriceMissing(request'.arg)))
       => (/\ response'.code = 400
           /\ connected' = connected
           /\ server_state' = server_state)]_vars

C7_CancelFilledKeepsStatus ==
    [][(/\ connected
        /\ request'.op = "cancel_order"
        /\ ValidKey(request'.key)
        /\ request'.arg \in FilledIds)
       => (/\ response'.code = 200
           /\ response'.body.status = "Filled")]_vars

\* C8: disconnect succeeds from every state and ends unconnected; on a
\* session that is not connected it changes nothing, and so does a
\* disconnect that follows a disconnect.
C8_DisconnectIdempotent ==
    [][(/\ request'.op = "disconnect"
        /\ ValidKey(request'.key))
       => (/\ response'.code = 200
           /\ response'.body.success
           /\ ~connected'
           /\ ~connected
                => (connected' = connected /\ server_state' = server_state)
           /\ (request.op = "disconnect" /\ response.code = 200)
                => (connected' = connected /\ server_state' = server_state))]_vars

\* C8 witness: a disconnect succeeded on a session that was never connected,
\* which still reads "initializing".
C8_Witness ==
    /\ request.op = "disconnect"
    /\ response.code = 200
    /\ response.body.success
    /\ ~connected
    /\ server_state.status = "initializing"
    /\ server_state.last_connected = <<>>

\* C9: between handlers, server_state["connected"] equals the connected flag
\* and server_state["status"] is "connected" exactly when the flag is set.
C9_FlagAgreesWithServerState ==
    /\ server_state.connected = connected
    /\ (server_state.status = "connected") <=> connected

\* C9 witness: the session was connected and then disconnected.
C9_Witness ==
    /\ ~connected
    /\ server_state.status = "disconnected"
    /\ server_state.last_connected # <<>>
    /\ phase = "serving"

\* C10: once the startup event has completed, server_state["status"]
\* eventually leaves "initializing", whether or not a request arrives.
C10_InitialConnectionAttempt ==
    (phase = "serving") ~> (server_state.status # "initializing")

====
